---- MODULE Spec2Model ----
(***************************************************************************)
(* Model of the acquisition pipeline of scholar-rss.                       *)
(*                                                                         *)
(* EfficientScholarFetcher (google_scholar_fetcher.py) is modelled as a    *)
(* state machine: the in-memory history and usage maps, the three kinds of *)
(* persisted files of the cache directory, the wall clock, and the         *)
(* position of the one call in progress.  A call is split at its outbound  *)
(* search requests: the step that issues a request ends where              *)
(* GoogleSearch(...).get_dict() is entered, and the step that receives the *)
(* response runs the handler up to its return or its next request.  While  *)
(* a call is in progress only its own response step is enabled.            *)
(*                                                                         *)
(* A search result is reduced to the fields the selection reads: title and *)
(* link (whose md5 is the paper id, kept here as the pair itself), whether *)
(* the link is on a free domain, and inline_links.cited_by.total.          *)
(*                                                                         *)
(* QiitaUploader (qiita_uploader.py) is modelled by the set of article     *)
(* file names in public/ and the string operations of its id check;        *)
(* strings are lists of one-character strings.                             *)
(*                                                                         *)
(* ArxivFetcher (arxiv_fetcher.py) and the acquisition part of main        *)
(* (main.py) are modelled the same way, split at each requests.get: the    *)
(* Semantic Scholar search with its retry loop and arXiv fallback, the     *)
(* arXiv feed request, and the citation lookups of the enrichment loops.   *)
(* A call ends with a returned list or with an exception that left it.     *)
(* Publication dates of search results are kept relative to the requested  *)
(* window; those of feed entries are day numbers.                          *)
(*                                                                         *)
(* _search_with_query is also modelled as one step from a history found    *)
(* on disk, for the properties of its selection.                           *)
(*                                                                         *)
(* Three further specifications look at the fetcher in environments the    *)
(* first one leaves out: SpecQuery follows the keyword search's query      *)
(* selection through the calendar, SpecDisk lets the writes of the usage   *)
(* and history files fail, and SpecConcurrent runs two searches at once    *)
(* over one usage file.                                                    *)
(***************************************************************************)
EXTENDS Integers, Sequences, FiniteSets, TLC

\* ---------------------------------------------------------------- bounds
MaxMonth == 2
MaxDom == 2
MaxTitle == 2
MaxResults == 2
MaxPapers == 1
MaxRequests == 3
NearLimit == 1
MaxIncrements == 101
MaxFiles == 2
MaxId == 2
MaxCitations == 1
MaxData == 2
MaxWanted == 2
MaxPub == 2
MaxEntries == 2
MaxVelocity == 1
MaxCandidates == 3
MaxSelect == 2
MaxSelectCalls == 1

\* ------------------------------------------------------ program constants
MonthlyLimit == 100
MinCitationsCategory == 1
MinCitationsRecent == 1
MinCitationsQuality == 10
MaxSafeTitleLen == 50
MaxRetries == 3
\* wait_time = 60 * retry_count: the seconds per attempt
BaseDelay == 60

VARIABLES
    now,              \* wall clock: <<month, day of month>>
    fetched_papers,   \* self.fetched_papers: date -> set of paper ids
    api_usage,        \* self.api_usage: month key -> count
    history_file,     \* content of fetched_papers_history.json
    api_usage_file,   \* content of api_usage.json
    daily_files,      \* content of papers_<date>.json: date -> list of papers
    pc,               \* position of the call in progress
    call,             \* the call in progress or last finished: op and arguments
    ret,              \* return value of the last finished call
    sent,             \* requests issued by the current/last call, in order
    issued,           \* per month: requests issued since the start
    increments,       \* per month: _increment_api_usage calls since the start
    usage0,           \* per month: the persisted count at the start
    delivered,        \* ids returned by the fetch_daily_papers calls so far
    public_dir,       \* QiitaUploader: names of the *.md files in public/
    recorded,         \* arXiv ids (base, version) an article file was created for
    checked,          \* the last is_paper_already_processed call and its result
    received,         \* the search response handed to the last _search_with_query
    apc,              \* ArxivFetcher / main: position of the call in progress
    acall,            \* ArxivFetcher / main: the call and its arguments
    retry_count,      \* retry_count of the Semantic Scholar search loop
    requests,         \* HTTP requests sent by the call, per endpoint
    work,             \* the papers the call holds (all_papers / papers)
    collected,        \* papers_with_citations of the enrichment loop
    idx,              \* index in work of the paper whose lookup is awaited
    outcome,          \* how the last call ended: a list returned, or raised
    trail,            \* what the call went through (failures, passes, lookups)
    fault,            \* the file writes of the last search that failed, and its end
    workers,          \* concurrent _search_with_query calls: position, instance
    instances,        \* the api_usage map of each fetcher instance running them
    search_queries_recent,  \* self.search_queries_recent
    query             \* the query the last keyword search selected

fetcherVars == <<now, fetched_papers, api_usage, history_file, api_usage_file,
                 daily_files, pc, call, ret, sent, issued, increments, usage0,
                 delivered>>

qiitaVars == <<public_dir, recorded, checked>>

selectVars == <<received>>

arxivVars == <<apc, acall, retry_count, requests, work, collected, idx, outcome, trail>>

diskVars == <<fault>>

concurrentVars == <<workers, instances>>

queryVars == <<search_queries_recent, query>>

auxVars == <<diskVars, concurrentVars, queryVars>>

vars == <<fetcherVars, qiitaVars, selectVars, arxivVars, auxVars>>

Months == 1..MaxMonth
Dates == Months \X (1..MaxDom)

\* ------------------------------------------------------------ dictionaries
EmptyDict == <<>>

Get(d, k, default) == IF k \in DOMAIN d THEN d[k] ELSE default

Put(d, k, v) == [x \in (DOMAIN d) \cup {k} |-> IF x = k THEN v ELSE d[x]]

\* ------------------------------------------------------------------ clock
GetCurrentMonthKey(t) == t[1]

Today(t) == t

\* ------------------------------------------------------------------ quota
\* variant: the limit test off by one (remaining >= 0)
CheckApiLimitOffByOne(usage, t) ==
    LET current_usage == Get(usage, GetCurrentMonthKey(t), 0)
        remaining == MonthlyLimit - current_usage
    IN  <<remaining >= 0, remaining>>

CheckApiLimit(usage, t) ==
    LET current_usage == Get(usage, GetCurrentMonthKey(t), 0)
        remaining == MonthlyLimit - current_usage
    IN  <<remaining > 0, remaining>>

\* variant: a missing month key is read as 1
IncrementApiUsageFromOne(usage, t) ==
    Put(usage, GetCurrentMonthKey(t), Get(usage, GetCurrentMonthKey(t), 1) + 1)

\* variant: the map is rebuilt with the current month only
IncrementApiUsageOnlyCurrent(usage, t) ==
    (GetCurrentMonthKey(t) :> Get(usage, GetCurrentMonthKey(t), 0) + 1)

IncrementApiUsage(usage, t) ==
    Put(usage, GetCurrentMonthKey(t), Get(usage, GetCurrentMonthKey(t), 0) + 1)

SaveApiUsage(usage) == usage

LoadApiUsage(file) == file

\* ---------------------------------------------------------------- history
\* list(papers): the ids of a set written as a JSON array
RECURSIVE SetToList(_)
SetToList(S) ==
    IF S = {} THEN <<>>
    ELSE LET x == CHOOSE y \in S : TRUE IN <<x>> \o SetToList(S \ {x})

ListToSet(l) == {l[i] : i \in 1..Len(l)}

SaveHistory(history) == [d \in DOMAIN history |-> SetToList(history[d])]

LoadHistory(file) == [d \in DOMAIN file |-> ListToSet(file[d])]

AllFetchedIds(history) == UNION {history[d] : d \in DOMAIN history}

\* ------------------------------------------------- the search response
Links == {"arxiv.org", "other"}

CitedBy == {0, MinCitationsCategory, MinCitationsQuality}

OrganicResults ==
    {r \in [title : 1..MaxTitle, link : Links, cited_by : CitedBy] :
        r.link = "other" => r.cited_by = MinCitationsQuality}

RECURSIVE SeqsUpTo(_, _)
SeqsUpTo(S, n) ==
    IF n = 0 THEN {<<>>}
    ELSE LET shorter == SeqsUpTo(S, n - 1)
         IN  shorter \cup {Append(s, x) : s \in {q \in shorter : Len(q) = n - 1}, x \in S}

Responses ==
    {[kind |-> "exception"], [kind |-> "no_organic"]}
    \cup {[kind |-> "organic", organic_results |-> rs] : rs \in SeqsUpTo(OrganicResults, MaxResults)}

GetPaperId(result) == <<result.title, result.link>>

IsFreePaper(result) == result.link = "arxiv.org"

ExtractCitations(result) == result.cited_by

PaperInfo(result) == [id |-> GetPaperId(result), citations |-> ExtractCitations(result)]

RECURSIVE FilterPapers(_, _)
FilterPapers(results, min_citations) ==
    IF results = <<>> THEN <<>>
    ELSE LET result == Head(results)
             rest == FilterPapers(Tail(results), min_citations)
         IN  IF IsFreePaper(result) /\ ExtractCitations(result) >= min_citations
             THEN <<PaperInfo(result)>> \o rest
             ELSE rest

\* papers.sort(key=citations, reverse=True): stable, descending
RECURSIVE InsertByCitations(_, _)
InsertByCitations(sorted, p) ==
    IF sorted = <<>> THEN <<p>>
    ELSE IF Head(sorted).citations >= p.citations
         THEN <<Head(sorted)>> \o InsertByCitations(Tail(sorted), p)
         ELSE <<p>> \o sorted

RECURSIVE SortByCitations(_)
SortByCitations(papers) ==
    IF papers = <<>> THEN <<>>
    ELSE InsertByCitations(SortByCitations(SubSeq(papers, 1, Len(papers) - 1)),
                           papers[Len(papers)])

\* variant: the selection loop without the history test
RECURSIVE SelectNewNoDedup(_, _, _, _)
SelectNewNoDedup(papers, all_fetched_ids, max_papers, new_papers) ==
    IF papers = <<>> THEN new_papers
    ELSE LET appended == Append(new_papers, Head(papers))
         IN  IF Len(appended) >= max_papers THEN appended
             ELSE SelectNewNoDedup(Tail(papers), all_fetched_ids, max_papers, appended)

\* the selection loop: append when not in history, break once len >= max_papers
RECURSIVE SelectNew(_, _, _, _)
SelectNew(papers, all_fetched_ids, max_papers, new_papers) ==
    IF papers = <<>> THEN new_papers
    ELSE IF Head(papers).id \notin all_fetched_ids
         THEN LET appended == Append(new_papers, Head(papers))
              IN  IF Len(appended) >= max_papers THEN appended
                  ELSE SelectNew(Tail(papers), all_fetched_ids, max_papers, appended)
         ELSE SelectNew(Tail(papers), all_fetched_ids, max_papers, new_papers)

NewPapers(resp, history, min_citations, max_papers) ==
    IF resp.kind # "organic" THEN <<>>
    ELSE SelectNew(SortByCitations(FilterPapers(resp.organic_results, min_citations)),
                   AllFetchedIds(history), max_papers, <<>>)

IdsOf(papers) == {papers[i].id : i \in 1..Len(papers)}

\* ------------------------------------------------------------ the fetcher
Used(usage, t) == Get(usage, GetCurrentMonthKey(t), 0)

RECURSIVE SumUpTo(_, _)
SumUpTo(count, m) == IF m = 0 THEN 0 ELSE count[m] + SumUpTo(count, m - 1)

TotalIssued == SumUpTo(issued, MaxMonth)

TotalIncrements == SumUpTo(increments, MaxMonth)

NoCall == [op |-> "none", force |-> FALSE, prefer_recent |-> FALSE, max_papers |-> 0]

Request(kind, usage) ==
    [kind |-> kind, month |-> GetCurrentMonthKey(now), used |-> Used(usage, now)]

\* entering GoogleSearch(params).get_dict()
IssueRequest(kind, usage, already) ==
    /\ pc' = kind
    /\ ret' = <<>>
    /\ sent' = Append(already, Request(kind, usage))
    /\ issued' = [issued EXCEPT ![GetCurrentMonthKey(now)] = @ + 1]

Return(papers, already) ==
    /\ pc' = "idle"
    /\ ret' = papers
    /\ sent' = already
    /\ UNCHANGED issued

\* variant: the batch is recorded in memory but _save_history() is left out
AcceptBatchUnsaved(papers) ==
    /\ fetched_papers' = Put(fetched_papers, Today(now), IdsOf(papers))
    /\ history_file' = history_file
    /\ daily_files' = Put(daily_files, Today(now), papers)

\* self.fetched_papers[today] = {ids}; _save_history(); _save_daily_papers()
AcceptBatch(papers) ==
    /\ fetched_papers' = Put(fetched_papers, Today(now), IdsOf(papers))
    /\ history_file' = SaveHistory(fetched_papers')
    /\ daily_files' = Put(daily_files, Today(now), papers)

\* try: results = search.get_dict(); self._increment_api_usage(); ... except: return []
AfterRequest(resp) ==
    IF resp.kind = "exception"
    THEN UNCHANGED <<api_usage, api_usage_file, increments>>
    ELSE /\ api_usage' = IncrementApiUsage(api_usage, now)
         /\ api_usage_file' = SaveApiUsage(api_usage')
         /\ increments' = [increments EXCEPT ![GetCurrentMonthKey(now)] = @ + 1]

\* variant: the once-per-day guard is left out
FetchedTodayIgnored(force) == FALSE

\* if today in self.fetched_papers and not force
FetchedToday(force) == Today(now) \in DOMAIN fetched_papers /\ ~force

\* variant: an empty batch is accepted like any other
FoundOrNot(papers) == TRUE

\* if category_papers: / if keyword_papers:
Found(papers) == papers # <<>>

FetchDailyPapers(force, prefer_recent, max_papers) ==
    /\ UNCHANGED <<qiitaVars, arxivVars, selectVars, auxVars>>
    /\ pc = "idle"
    /\ TotalIssued < MaxRequests
    /\ call' = [op |-> "fetch_daily_papers", force |-> force,
                prefer_recent |-> prefer_recent, max_papers |-> max_papers]
    /\ UNCHANGED <<now, fetched_papers, api_usage, history_file, api_usage_file,
                   daily_files, increments, usage0, delivered>>
    /\ IF FetchedToday(force)
       THEN Return(<<>>, <<>>)
       ELSE IF ~CheckApiLimit(api_usage, now)[1]
            THEN Return(<<>>, <<>>)
            ELSE \* fetch_papers_by_arxiv_categories -> _search_with_query
                 IF ~CheckApiLimit(api_usage, now)[1]
                 THEN IssueRequest("keyword", api_usage, <<>>)
                 ELSE IssueRequest("category", api_usage, <<>>)

FetchPapersByArxivCategories(max_papers) ==
    /\ UNCHANGED <<qiitaVars, arxivVars, selectVars, auxVars>>
    /\ pc = "idle"
    /\ TotalIssued < MaxRequests
    /\ call' = [op |-> "fetch_papers_by_arxiv_categories", force |-> FALSE,
                prefer_recent |-> FALSE, max_papers |-> max_papers]
    /\ UNCHANGED <<now, fetched_papers, api_usage, history_file, api_usage_file,
                   daily_files, increments, usage0, delivered>>
    /\ IF ~CheckApiLimit(api_usage, now)[1]
       THEN Return(<<>>, <<>>)
       ELSE IssueRequest("category", api_usage, <<>>)

\* the ids handed out so far, after a step that may end a fetch_daily_papers call
Delivered(op, position, papers) ==
    IF op = "fetch_daily_papers" /\ position = "idle"
    THEN delivered \cup IdsOf(papers) ELSE delivered

\* _search_with_query from the response on, then the caller's continuation
CategoryResponse(resp) ==
    /\ UNCHANGED <<qiitaVars, arxivVars, selectVars, auxVars>>
    /\ pc = "category"
    /\ AfterRequest(resp)
    /\ UNCHANGED <<now, call, usage0>>
    /\ LET category_papers ==
               IF resp.kind = "exception" THEN <<>>
               ELSE NewPapers(resp, fetched_papers, MinCitationsCategory, call.max_papers)
       IN  IF call.op = "fetch_papers_by_arxiv_categories"
           THEN /\ Return(category_papers, sent)
                /\ UNCHANGED <<fetched_papers, history_file, daily_files>>
           ELSE IF Found(category_papers)
                THEN /\ AcceptBatch(category_papers)
                     /\ Return(category_papers, sent)
                ELSE /\ IssueRequest("keyword", api_usage', sent)
                     /\ UNCHANGED <<fetched_papers, history_file, daily_files>>
    /\ delivered' = Delivered(call.op, pc', ret')

\* _fetch_papers_keyword_based from the response on, then fetch_daily_papers' tail
KeywordResponse(resp) ==
    /\ UNCHANGED <<qiitaVars, arxivVars, selectVars, auxVars>>
    /\ pc = "keyword"
    /\ AfterRequest(resp)
    /\ UNCHANGED <<now, call, usage0>>
    /\ LET min_citations ==
               IF call.prefer_recent THEN MinCitationsRecent ELSE MinCitationsQuality
           keyword_papers ==
               IF resp.kind = "exception" THEN <<>>
               ELSE NewPapers(resp, fetched_papers, min_citations, call.max_papers)
       IN  /\ IF Found(keyword_papers)
              THEN AcceptBatch(keyword_papers)
              ELSE UNCHANGED <<fetched_papers, history_file, daily_files>>
           /\ Return(keyword_papers, sent)
    /\ delivered' = Delivered(call.op, pc', ret')

\* datetime.now() moves on between calls
NextDay ==
    /\ UNCHANGED <<qiitaVars, arxivVars, selectVars, auxVars>>
    /\ pc = "idle"
    /\ now[2] < MaxDom
    /\ now' = <<now[1], now[2] + 1>>
    /\ call' = NoCall /\ ret' = <<>> /\ sent' = <<>>
    /\ UNCHANGED <<fetched_papers, api_usage, history_file, api_usage_file,
                   daily_files, pc, issued, increments, usage0, delivered>>

NextMonth ==
    /\ UNCHANGED <<qiitaVars, arxivVars, selectVars, auxVars>>
    /\ pc = "idle"
    /\ now[1] < MaxMonth
    /\ now' = <<now[1] + 1, 1>>
    /\ call' = NoCall /\ ret' = <<>> /\ sent' = <<>>
    /\ UNCHANGED <<fetched_papers, api_usage, history_file, api_usage_file,
                   daily_files, pc, issued, increments, usage0, delivered>>

\* the process ends and a new fetcher is constructed over the same cache_dir
Restart ==
    /\ UNCHANGED <<qiitaVars, arxivVars, selectVars, auxVars>>
    /\ pc = "idle"
    /\ fetched_papers' = LoadHistory(history_file)
    /\ api_usage' = LoadApiUsage(api_usage_file)
    /\ call' = NoCall /\ ret' = <<>> /\ sent' = <<>>
    /\ UNCHANGED <<now, history_file, api_usage_file, daily_files, pc, issued,
                   increments, usage0, delivered>>

\* ArxivFetcher holds no state between calls (only self.delay)
NoArxivCall == [op |-> "none", max_results |-> 0, semantic_scholar |-> FALSE,
                recent |-> FALSE, qiita_upload |-> FALSE]

NoRequests == [search |-> 0, arxiv |-> 0, lookup |-> 0]

NoOutcome == [kind |-> "none"]

NoTrail == [failure |-> "none", fallback |-> FALSE, data |-> <<>>, strict |-> 0,
            relaxed |-> 0, lookups |-> <<>>, waits |-> <<>>, responses |-> <<>>]

NoResponse == [kind |-> "none"]

\* no write has failed
NoFault == [usage |-> FALSE, history |-> FALSE, raised |-> FALSE]

\* no concurrent search is running
NoWorkers == <<>>

\* self.search_queries_quality
SearchQueriesQuality == <<"quality">>

\* self.search_queries_recent as __init__ sets it
SearchQueriesRecent == <<"recent">>

\* no keyword search has selected a query
NoQuery == [index |-> 0, text |-> "none", date |-> <<0, 0>>, queries |-> <<>>]

\* the cache directory found at construction: no usage file, or one written
\* by earlier runs of the current month
InitialUsageFiles ==
    {EmptyDict} \cup {(1 :> c) : c \in (MonthlyLimit - NearLimit)..MonthlyLimit}

\* what a new process starts with, whatever the cache directory holds
InitRest ==
    /\ daily_files = EmptyDict
    /\ fetched_papers = LoadHistory(history_file)
    /\ api_usage = LoadApiUsage(api_usage_file)
    /\ pc = "idle"
    /\ call = NoCall
    /\ ret = <<>>
    /\ sent = <<>>
    /\ issued = [m \in Months |-> 0]
    /\ increments = [m \in Months |-> 0]
    /\ usage0 = [m \in Months |-> Get(api_usage_file, m, 0)]
    /\ delivered = {}
    /\ public_dir = {}
    /\ recorded = {}
    /\ checked = [op |-> "none"]
    /\ received = NoResponse
    /\ apc = "idle"
    /\ acall = NoArxivCall
    /\ retry_count = 0
    /\ requests = NoRequests
    /\ work = <<>>
    /\ collected = <<>>
    /\ idx = 0
    /\ outcome = NoOutcome
    /\ trail = NoTrail
    /\ fault = NoFault
    /\ workers = NoWorkers
    /\ instances = <<>>
    /\ search_queries_recent = SearchQueriesRecent
    /\ query = NoQuery

Init ==
    /\ now = <<1, 1>>
    /\ api_usage_file \in InitialUsageFiles
    /\ history_file = EmptyDict
    /\ InitRest

Next ==
    \/ \E force \in BOOLEAN, prefer_recent \in BOOLEAN, max_papers \in 0..MaxPapers :
           FetchDailyPapers(force, prefer_recent, max_papers)
    \/ \E max_papers \in 0..MaxPapers : FetchPapersByArxivCategories(max_papers)
    \/ \E resp \in Responses : CategoryResponse(resp)
    \/ \E resp \in Responses : KeywordResponse(resp)
    \/ NextDay
    \/ NextMonth
    \/ Restart

Spec == Init /\ [][Next]_vars

\* ------------------------------------------- the quota methods on their own
\* self._increment_api_usage() called directly
IncrementApiUsageCall ==
    /\ UNCHANGED <<qiitaVars, arxivVars, selectVars, auxVars>>
    /\ pc = "idle"
    /\ TotalIncrements < MaxIncrements
    /\ api_usage' = IncrementApiUsage(api_usage, now)
    /\ api_usage_file' = SaveApiUsage(api_usage')
    /\ increments' = [increments EXCEPT ![GetCurrentMonthKey(now)] = @ + 1]
    /\ call' = [NoCall EXCEPT !.op = "_increment_api_usage"]
    /\ ret' = <<>>
    /\ UNCHANGED <<now, fetched_papers, history_file, daily_files, pc, sent, issued,
                   usage0, delivered>>

\* self._check_api_limit() called directly
CheckApiLimitCall ==
    /\ UNCHANGED <<qiitaVars, arxivVars, selectVars, auxVars>>
    /\ pc = "idle"
    /\ call' = [NoCall EXCEPT !.op = "_check_api_limit"]
    /\ ret' = CheckApiLimit(api_usage, now)
    /\ UNCHANGED <<now, fetched_papers, api_usage, history_file, api_usage_file,
                   daily_files, pc, sent, issued, increments, usage0, delivered>>

InitQuota == Init /\ api_usage_file = EmptyDict

NextQuota == IncrementApiUsageCall \/ CheckApiLimitCall \/ NextMonth

SpecQuota == InitQuota /\ [][NextQuota]_vars

\* ------------------------------------------- _search_with_query on its own
PaperIds == {GetPaperId(result) : result \in OrganicResults}

\* the history file found at construction: ids accepted on the day before
InitialHistoryFiles == {SaveHistory((<<1, 1>> :> ids)) : ids \in SUBSET PaperIds}

SelectResponses ==
    {[kind |-> "exception"], [kind |-> "no_organic"]}
    \cup {[kind |-> "organic", organic_results |-> rs] :
              rs \in SeqsUpTo(OrganicResults, MaxCandidates)}

\* self._search_with_query(query, max_papers), with the response it receives
SearchWithQuery(resp, max_papers) ==
    /\ UNCHANGED <<qiitaVars, arxivVars, auxVars>>
    /\ pc = "idle"
    /\ TotalIssued < MaxSelectCalls
    /\ call' = [NoCall EXCEPT !.op = "_search_with_query", !.max_papers = max_papers]
    /\ UNCHANGED <<now, fetched_papers, history_file, daily_files, usage0, pc,
                   delivered>>
    /\ IF ~CheckApiLimit(api_usage, now)[1]
       THEN /\ ret' = <<>>
            /\ sent' = <<>>
            /\ received' = NoResponse
            /\ UNCHANGED <<api_usage, api_usage_file, increments, issued>>
       ELSE /\ AfterRequest(resp)
            /\ received' = resp
            /\ sent' = <<Request("category", api_usage)>>
            /\ issued' = [issued EXCEPT ![GetCurrentMonthKey(now)] = @ + 1]
            /\ ret' = IF resp.kind = "exception" THEN <<>>
                      ELSE NewPapers(resp, fetched_papers, MinCitationsCategory, max_papers)

InitSelect ==
    /\ now = <<1, 2>>
    /\ api_usage_file = EmptyDict
    /\ history_file \in InitialHistoryFiles
    /\ InitRest

NextSelect ==
    /\ TotalIssued < MaxSelectCalls
    /\ \E resp \in SelectResponses, max_papers \in 0..MaxSelect :
           SearchWithQuery(resp, max_papers)

SpecSelect == InitSelect /\ [][NextSelect]_vars

TypeOK ==
    /\ now \in Dates
    /\ pc \in {"idle", "category", "keyword"}
    /\ DOMAIN api_usage \subseteq Months
    /\ DOMAIN fetched_papers \subseteq Dates

\* ------------------------------------------------ strings as char lists
\* str.split(sep) for a one-character separator
RECURSIVE SplitFrom(_, _, _)
SplitFrom(s, sep, current) ==
    IF s = <<>> THEN <<current>>
    ELSE IF Head(s) = sep
         THEN <<current>> \o SplitFrom(Tail(s), sep, <<>>)
         ELSE SplitFrom(Tail(s), sep, Append(current, Head(s)))

Split(s, sep) == SplitFrom(s, sep, <<>>)

\* str.replace(old, ""), left to right
RECURSIVE Remove(_, _)
Remove(s, old) ==
    IF Len(s) < Len(old) THEN s
    ELSE IF SubSeq(s, 1, Len(old)) = old
         THEN Remove(SubSeq(s, Len(old) + 1, Len(s)), old)
         ELSE <<Head(s)>> \o Remove(Tail(s), old)

Contains(s, c) == \E i \in 1..Len(s) : s[i] = c

Digits == {"0", "1", "2", "3", "4", "5", "6", "7", "8", "9"}

\* int(s) does not raise ValueError
IsInt(s) == s # <<>> /\ \A i \in 1..Len(s) : s[i] \in Digits

RECURSIVE RStrip(_, _)
RStrip(s, c) ==
    IF s # <<>> /\ s[Len(s)] = c THEN RStrip(SubSeq(s, 1, Len(s) - 1), c) ELSE s

\* ---------------------------------------------------------- QiitaUploader
WordChars == Digits \cup {"a", "b", "v", "_", "-"}

\* re.sub(r"[^\w\-_\s]", "", title)
RECURSIVE KeepSafeChars(_)
KeepSafeChars(title) ==
    IF title = <<>> THEN <<>>
    ELSE IF Head(title) \in WordChars \cup {" "}
         THEN <<Head(title)>> \o KeepSafeChars(Tail(title))
         ELSE KeepSafeChars(Tail(title))

\* re.sub(r"\s+", "_", safe_title)
RECURSIVE SpacesToUnderscore(_)
SpacesToUnderscore(s) ==
    IF s = <<>> THEN <<>>
    ELSE IF Head(s) = " "
         THEN IF Len(s) > 1 /\ s[2] = " "
              THEN SpacesToUnderscore(Tail(s))
              ELSE <<"_">> \o SpacesToUnderscore(Tail(s))
         ELSE <<Head(s)>> \o SpacesToUnderscore(Tail(s))

CreateSafeFilename(title) ==
    LET replaced == SpacesToUnderscore(KeepSafeChars(title))
        cut == IF Len(replaced) > MaxSafeTitleLen
               THEN SubSeq(replaced, 1, MaxSafeTitleLen) ELSE replaced
        stripped == RStrip(cut, "_")
    IN  IF stripped = <<>> THEN <<"u", "n", "t", "i", "t", "l", "e", "d">> ELSE stripped

DotMd == <<".", "m", "d">>

\* filename = f"{safe_title}_{summary.arxiv_id}.md"
ArticleFilename(title, arxiv_id) == CreateSafeFilename(title) \o <<"_">> \o arxiv_id \o DotMd

\* the ids one file name contributes to get_existing_arxiv_ids
IdsFromFilename(filename) ==
    LET parts == Split(Remove(filename, DotMd), "_")
        potential_id == parts[Len(parts)]
        halves == Split(potential_id, ".")
    IN  IF Contains(potential_id, ".") /\ Len(halves) = 2
        THEN LET year_month == halves[1]
                 paper_num == IF Contains(halves[2], "v")
                              THEN Split(halves[2], "v")[1] ELSE halves[2]
             IN  IF IsInt(year_month) /\ IsInt(paper_num)
                 THEN {year_month \o <<".">> \o paper_num}
                 ELSE {}
        ELSE {}

GetExistingArxivIds(files) == UNION {IdsFromFilename(f) : f \in files}

\* variant: the version suffix is kept
QiitaCleanIdKeepVersion(arxiv_id) == arxiv_id

\* clean_id = arxiv_id.split('v')[0]
QiitaCleanId(arxiv_id) == Split(arxiv_id, "v")[1]

IsPaperAlreadyProcessed(files, arxiv_id) ==
    QiitaCleanId(arxiv_id) \in GetExistingArxivIds(files)

\* ArxivFetcher._get_citation_count_simple: clean_id = arxiv_id.split("v")[0]
CitationCleanId(arxiv_id) == Split(arxiv_id, "v")[1]

\* sample inputs: titles, and arXiv ids YYMM.NNNNN with or without a version
Titles ==
    {<<"a">>, <<"a", " ">>, <<"a", " ", " ", "b", ".", "2">>, <<".">>}

BaseIds ==
    {<<"2", "5", "0", "7", ".", "1", "3", "3", "5", "3">>,
     <<"0", "7", "0", "4", ".", "0", "0", "0", "1">>}

Versions == {<<>>, <<"v", "1">>, <<"v", "2">>, <<"v", "1", "0">>}

\* create_article: the article file of a summary is written to public/
CreateArticle(title, base, version) ==
    /\ Cardinality(public_dir) < MaxFiles
    /\ public_dir' = public_dir \cup {ArticleFilename(title, base \o version)}
    /\ recorded' = recorded \cup {<<base, version>>}
    /\ checked' = [op |-> "none"]
    /\ UNCHANGED <<fetcherVars, arxivVars, selectVars, auxVars>>

IsPaperAlreadyProcessedCall(base, version) ==
    /\ checked' = [op |-> "is_paper_already_processed", base |-> base, version |-> version,
                   result |-> IsPaperAlreadyProcessed(public_dir, base \o version)]
    /\ UNCHANGED <<public_dir, recorded>>
    /\ UNCHANGED <<fetcherVars, arxivVars, selectVars, auxVars>>

InitQiita == Init /\ api_usage_file = EmptyDict

NextQiita ==
    \/ \E title \in Titles, base \in BaseIds, version \in Versions :
           CreateArticle(title, base, version)
    \/ \E base \in BaseIds, version \in Versions : IsPaperAlreadyProcessedCall(base, version)

SpecQiita == InitQiita /\ [][NextQiita]_vars

\* ----------------------------------------------------------- ArxivFetcher
ArxivIds == 1..MaxId

\* publicationDate of a search result, relative to [start_date, end_date]:
\* inside it, before it by at most the maximum look-back, before that, null,
\* or a string datetime.fromisoformat rejects
PubDates == {"in_window", "look_back", "older", "absent", "malformed"}

\* one element of data["data"]; arxiv_id 0: externalIds has no "ArXiv"
SearchItems == [arxiv_id : {0} \cup ArxivIds, date : PubDates, citations : 0..MaxCitations]

SearchResponses ==
    {[kind |-> k] : k \in {"exception", "429", "error_status", "bad_json"}}
    \cup {[kind |-> "ok", data |-> d] : d \in SeqsUpTo(SearchItems, MaxData)}

\* _create_arxiv_paper_from_semantic_scholar returns None
CreateFails(paper_data) == paper_data.date = "malformed"

CreateArxivPaperFromSemanticScholar(paper_data) ==
    [arxiv_id |-> paper_data.arxiv_id,
     published |-> IF paper_data.date = "absent" THEN "now" ELSE paper_data.date,
     citation_count |-> paper_data.citations,
     citation_velocity |-> 0]

\* variant: an item without publicationDate is included as well
ShouldIncludeUndated(paper_data) == paper_data.date \in {"in_window", "absent"}

\* start_date <= pub_datetime <= end_date, for a date that is present and parses
ShouldInclude(paper_data) == paper_data.date = "in_window"

\* the first loop over papers_data
RECURSIVE StrictPass(_, _, _)
StrictPass(papers_data, max_results, arxiv_papers) ==
    IF papers_data = <<>> THEN arxiv_papers
    ELSE LET paper_data == Head(papers_data)
         IN  IF paper_data.arxiv_id # 0
             THEN LET appended ==
                          IF ~CreateFails(paper_data) /\ ShouldInclude(paper_data)
                          THEN Append(arxiv_papers,
                                      CreateArxivPaperFromSemanticScholar(paper_data))
                          ELSE arxiv_papers
                  IN  IF Len(appended) >= max_results THEN appended
                      ELSE StrictPass(Tail(papers_data), max_results, appended)
             ELSE StrictPass(Tail(papers_data), max_results, arxiv_papers)

Take(s, n) == SubSeq(s, 1, IF n < Len(s) THEN n ELSE Len(s))

\* the second loop, over papers_data[:max_results * 3]
RECURSIVE RelaxedPass(_, _, _)
RelaxedPass(papers_data, max_results, arxiv_papers) ==
    IF papers_data = <<>> THEN arxiv_papers
    ELSE LET paper_data == Head(papers_data)
         IN  IF paper_data.arxiv_id # 0 /\ ~CreateFails(paper_data)
             THEN LET appended == Append(arxiv_papers,
                                         CreateArxivPaperFromSemanticScholar(paper_data))
                  IN  IF Len(appended) >= max_results THEN appended
                      ELSE RelaxedPass(Tail(papers_data), max_results, appended)
             ELSE RelaxedPass(Tail(papers_data), max_results, arxiv_papers)

\* if len(arxiv_papers) == 0 and len(papers_data) > 0
NeedsRelaxedPass(papers_data, arxiv_papers) == Len(arxiv_papers) = 0 /\ Len(papers_data) > 0

FilterSearchData(papers_data, max_results) ==
    LET strict == StrictPass(papers_data, max_results, <<>>)
    IN  IF NeedsRelaxedPass(papers_data, strict)
        THEN RelaxedPass(Take(papers_data, max_results * 3), max_results, <<>>)
        ELSE strict

\* variant: one retry more than max_retries
RetryAgainOneMore(count) == count < MaxRetries + 1

\* if retry_count < max_retries (after the increment)
RetryAgain(count) == count < MaxRetries

ReturnList(papers) ==
    /\ apc' = "idle"
    /\ outcome' = [kind |-> "list", papers |-> papers]

Raise ==
    /\ apc' = "idle"
    /\ outcome' = [kind |-> "raised"]

SemanticScholarOp == "fetch_ai_papers_by_citation_from_semantic_scholar"

\* fetch_ai_papers_by_citation_from_semantic_scholar up to the first requests.get
FetchFromSemanticScholar(max_results) ==
    /\ UNCHANGED <<fetcherVars, qiitaVars, selectVars, auxVars>>
    /\ apc = "idle"
    /\ acall' = [NoArxivCall EXCEPT !.op = SemanticScholarOp, !.max_results = max_results]
    /\ retry_count' = 0
    /\ requests' = [NoRequests EXCEPT !.search = 1]
    /\ apc' = "search"
    /\ outcome' = NoOutcome
    /\ trail' = NoTrail
    /\ work' = <<>>
    /\ collected' = <<>>
    /\ idx' = 0

\* variant: every status other than 200 counts as rate limiting
IsRateLimitedOrError(resp) == resp.kind \in {"429", "error_status"}

\* response.status_code == 429
IsRateLimited(resp) == resp.kind = "429"

\* variant: the wait doubles with every attempt
WaitTimeDoubling(count) == BaseDelay * 2 ^ count

\* wait_time, in seconds
WaitTime(count) == BaseDelay * count

\* the retry loop from the response on, then the filtering, or the fallback's request
SearchResponse(resp) ==
    /\ UNCHANGED <<fetcherVars, qiitaVars, selectVars, auxVars>>
    /\ apc = "search"
    /\ UNCHANGED <<acall, work, collected, idx>>
    /\ IF IsRateLimited(resp)
       THEN /\ retry_count' = retry_count + 1
            /\ outcome' = NoOutcome
            /\ IF RetryAgain(retry_count')
               THEN /\ apc' = "search"
                    /\ requests' = [requests EXCEPT !.search = @ + 1]
                    /\ trail' = [trail EXCEPT
                                    !.responses = Append(@, resp.kind),
                                    !.waits = Append(@, WaitTime(retry_count'))]
               ELSE /\ apc' = "fallback"
                    /\ requests' = [requests EXCEPT !.arxiv = @ + 1]
                    /\ trail' = [trail EXCEPT !.responses = Append(@, resp.kind),
                                              !.fallback = TRUE]
       ELSE CASE resp.kind \in {"exception", "error_status", "bad_json"} ->
                   /\ ReturnList(<<>>)
                   /\ trail' = [trail EXCEPT !.responses = Append(@, resp.kind),
                                             !.failure = resp.kind]
                   /\ UNCHANGED <<retry_count, requests>>
              [] resp.kind = "ok" ->
                   /\ ReturnList(FilterSearchData(resp.data, acall.max_results))
                   /\ trail' = [trail EXCEPT
                          !.responses = Append(@, resp.kind),
                          !.strict = Len(StrictPass(resp.data, acall.max_results, <<>>)),
                          !.relaxed = IF NeedsRelaxedPass(resp.data,
                                            StrictPass(resp.data, acall.max_results, <<>>))
                                      THEN @ + 1 ELSE @,
                          !.data = resp.data]
                   /\ UNCHANGED <<retry_count, requests>>

\* one <entry> of the Atom feed; arxiv_id 0: no <id>, published 0: no
\* <published> or one that does not parse.  Day MaxPub lies in the current
\* year, the days before it in the year before.
ArxivEntries == [arxiv_id : {0} \cup ArxivIds, published : 0..MaxPub]

\* sortBy=submittedDate, sortOrder=descending: the feed lists newer entries first
NewestFirst(entries) ==
    \A i \in 1..Len(entries), j \in 1..Len(entries) :
        (i < j /\ entries[i].published # 0 /\ entries[j].published # 0)
            => entries[i].published >= entries[j].published

\* no two entries of one feed carry the same <id>
DistinctEntries(entries) ==
    \A i \in 1..Len(entries), j \in 1..Len(entries) :
        (i # j /\ entries[i].arxiv_id # 0) => entries[i].arxiv_id # entries[j].arxiv_id

ArxivResponses ==
    {[kind |-> k] : k \in {"exception", "error_status", "bad_xml"}}
    \cup {[kind |-> "ok", entries |-> e] :
              e \in {f \in SeqsUpTo(ArxivEntries, MaxEntries) :
                        NewestFirst(f) /\ DistinctEntries(f)}}

\* variant: only a missing <id> makes _parse_entry return None
ParseFailsIdOnly(entry) == entry.arxiv_id = 0

\* _parse_entry returns None
ParseFails(entry) == entry.arxiv_id = 0 \/ entry.published = 0

ParseEntry(entry) ==
    [arxiv_id |-> entry.arxiv_id, published |-> entry.published,
     citation_count |-> 0, citation_velocity |-> 0]

\* the loop over root.findall(entry)
RECURSIVE ParseEntries(_)
ParseEntries(entries) ==
    IF entries = <<>> THEN <<>>
    ELSE IF ParseFails(Head(entries)) THEN ParseEntries(Tail(entries))
         ELSE <<ParseEntry(Head(entries))>> \o ParseEntries(Tail(entries))

\* the fallback's fetch_ai_papers(max_results), inside the adapter's try
FallbackResponse(resp) ==
    /\ UNCHANGED <<fetcherVars, qiitaVars, selectVars, auxVars>>
    /\ apc = "fallback"
    /\ UNCHANGED <<acall, retry_count, requests, work, collected, idx>>
    /\ IF resp.kind = "ok"
       THEN /\ ReturnList(ParseEntries(resp.entries))
            /\ trail' = [trail EXCEPT !.data = resp.entries]
       ELSE /\ ReturnList(<<>>)
            /\ trail' = [trail EXCEPT !.failure = resp.kind]

\* the response to GET /v1/paper/arxiv:<clean_id>
LookupResponses ==
    {[kind |-> k] : k \in {"timeout", "request_error", "404", "error_status", "bad_json"}}
    \cup {[kind |-> "ok", numCitedBy |-> c, citationVelocity |-> v] :
              c \in 0..MaxCitations, v \in 0..MaxVelocity}

\* variant: a status other than 200 and 404 reports one citation
GetCitationCountSimpleStatusCounts(resp) ==
    IF resp.kind = "ok" THEN <<resp.numCitedBy, resp.citationVelocity>>
    ELSE IF resp.kind = "error_status" THEN <<1, 0>> ELSE <<0, 0>>

\* _get_citation_count_simple: every branch and every except clause returns a pair
GetCitationCountSimple(resp) ==
    IF resp.kind = "ok" THEN <<resp.numCitedBy, resp.citationVelocity>> ELSE <<0, 0>>

\* paper.published.year >= current_year
PublishedThisYear(paper) == paper.published >= MaxPub

\* sort(key=lambda x: x.citation_count, reverse=True): stable, descending
RECURSIVE InsertByCitationCount(_, _)
InsertByCitationCount(sorted, p) ==
    IF sorted = <<>> THEN <<p>>
    ELSE IF Head(sorted).citation_count >= p.citation_count
         THEN <<Head(sorted)>> \o InsertByCitationCount(Tail(sorted), p)
         ELSE <<p>> \o sorted

RECURSIVE SortByCitationCount(_)
SortByCitationCount(papers) ==
    IF papers = <<>> THEN <<>>
    ELSE InsertByCitationCount(SortByCitationCount(SubSeq(papers, 1, Len(papers) - 1)),
                               papers[Len(papers)])

\* (a.citation_count, a.citation_velocity) >= (b.citation_count, b.citation_velocity)
KeyAtLeast(a, b) ==
    \/ a.citation_count > b.citation_count
    \/ a.citation_count = b.citation_count /\ a.citation_velocity >= b.citation_velocity

\* sort(key=lambda x: (x.citation_count, x.citation_velocity), reverse=True)
RECURSIVE InsertByCountAndVelocity(_, _)
InsertByCountAndVelocity(sorted, p) ==
    IF sorted = <<>> THEN <<p>>
    ELSE IF KeyAtLeast(Head(sorted), p)
         THEN <<Head(sorted)>> \o InsertByCountAndVelocity(Tail(sorted), p)
         ELSE <<p>> \o sorted

RECURSIVE SortByCountAndVelocity(_)
SortByCountAndVelocity(papers) ==
    IF papers = <<>> THEN <<>>
    ELSE InsertByCountAndVelocity(
             SortByCountAndVelocity(SubSeq(papers, 1, Len(papers) - 1)),
             papers[Len(papers)])

\* paper.arxiv_id as the feed writes it: <base>v<version>
ArxivIdText(arxiv_id) ==
    LET bases == SetToList(BaseIds)
        versions == <<"1", "2", "3", "4", "5", "6", "7", "8", "9">>
    IN  bases[((arxiv_id - 1) % Len(bases)) + 1]
            \o <<"v", versions[((arxiv_id - 1) \div Len(bases)) + 1]>>

\* main: the loop that skips the papers an article file exists for
RECURSIVE FilterProcessed(_, _, _, _)
FilterProcessed(all_papers, files, max_results, filtered_papers) ==
    IF all_papers = <<>> THEN filtered_papers
    ELSE IF ~IsPaperAlreadyProcessed(files, ArxivIdText(Head(all_papers).arxiv_id))
         THEN LET appended == Append(filtered_papers, Head(all_papers))
              IN  IF Len(appended) >= max_results THEN appended
                  ELSE FilterProcessed(Tail(all_papers), files, max_results, appended)
         ELSE FilterProcessed(Tail(all_papers), files, max_results, filtered_papers)

\* main from "all_papers" on: papers is what the summarizer is handed
Finish(all_papers) ==
    ReturnList(IF acall.qiita_upload
               THEN FilterProcessed(all_papers, public_dir, acall.max_results, <<>>)
               ELSE all_papers)

\* the branches of main that look citations up paper by paper
Enriches(c) == c.semantic_scholar \/ (c.qiita_upload /\ c.recent)

\* main up to the requests.get of fetch_ai_papers / fetch_recent_papers
Main(semantic_scholar, recent, qiita_upload, max_results) ==
    /\ UNCHANGED <<fetcherVars, qiitaVars, selectVars, auxVars>>
    /\ apc = "idle"
    /\ acall' = [op |-> "main", max_results |-> max_results,
                 semantic_scholar |-> semantic_scholar, recent |-> recent,
                 qiita_upload |-> qiita_upload]
    /\ retry_count' = 0
    /\ requests' = [NoRequests EXCEPT !.arxiv = 1]
    /\ apc' = "arxiv"
    /\ outcome' = NoOutcome
    /\ trail' = NoTrail
    /\ work' = <<>>
    /\ collected' = <<>>
    /\ idx' = 0

\* the enrichment loops after the lookup of work[idx] has set paper's fields
AfterLookup(papers, gathered) ==
    IF acall.semantic_scholar
    THEN IF Len(gathered) >= acall.max_results * 2 \/ idx = Len(papers)
         THEN Finish(Take(SortByCountAndVelocity(gathered), acall.max_results))
         ELSE /\ apc' = "lookup"
              /\ outcome' = NoOutcome
    ELSE IF idx = Len(papers)
         THEN Finish(Take(SortByCitationCount(gathered), acall.max_results * 3))
         ELSE /\ apc' = "lookup"
              /\ outcome' = NoOutcome

\* fetch_ai_papers / fetch_recent_papers from the response on, then main's next step
ArxivResponse(resp) ==
    /\ UNCHANGED <<fetcherVars, qiitaVars, selectVars, auxVars>>
    /\ apc = "arxiv"
    /\ UNCHANGED <<acall, retry_count, collected>>
    /\ IF resp.kind # "ok"
       THEN /\ Raise
            /\ trail' = [trail EXCEPT !.failure = resp.kind]
            /\ UNCHANGED <<requests, work, idx>>
       ELSE LET papers == ParseEntries(resp.entries)
            IN  /\ work' = papers
                /\ trail' = [trail EXCEPT !.data = resp.entries]
                /\ IF Enriches(acall) /\ papers # <<>>
                   THEN /\ apc' = "lookup"
                        /\ outcome' = NoOutcome
                        /\ idx' = 1
                        /\ requests' = [requests EXCEPT !.lookup = @ + 1]
                   ELSE /\ Finish(papers)
                        /\ UNCHANGED <<requests, idx>>

\* _get_citation_count_simple(work[idx]) from the response on, then the loop's next step
LookupResponse(resp) ==
    /\ UNCHANGED <<fetcherVars, qiitaVars, selectVars, auxVars>>
    /\ apc = "lookup"
    /\ UNCHANGED <<acall, retry_count>>
    /\ LET counts == GetCitationCountSimple(resp)
           paper == [work[idx] EXCEPT !.citation_count = counts[1],
                                      !.citation_velocity = counts[2]]
           gathered ==
               IF acall.semantic_scholar
               THEN IF counts[1] > 0 \/ (PublishedThisYear(paper) /\ counts[2] > 0)
                    THEN Append(collected, paper) ELSE collected
               ELSE Append(collected, paper)
       IN  /\ work' = [work EXCEPT ![idx] = paper]
           /\ collected' = gathered
           /\ trail' = [trail EXCEPT !.lookups = Append(@, resp.kind)]
           /\ AfterLookup(work, gathered)
           /\ IF apc' = "lookup"
              THEN /\ idx' = idx + 1
                   /\ requests' = [requests EXCEPT !.lookup = @ + 1]
              ELSE UNCHANGED <<idx, requests>>

InitArxiv == Init /\ api_usage_file = EmptyDict

NextArxiv ==
    \/ \E max_results \in 0..MaxWanted : FetchFromSemanticScholar(max_results)
    \/ apc = "search" /\ \E resp \in SearchResponses : SearchResponse(resp)
    \/ apc = "fallback" /\ \E resp \in ArxivResponses : FallbackResponse(resp)
    \/ \E semantic_scholar \in BOOLEAN, recent \in BOOLEAN, qiita_upload \in BOOLEAN,
          max_results \in 0..MaxWanted :
           Main(semantic_scholar, recent, qiita_upload, max_results)
    \/ apc = "arxiv" /\ \E resp \in ArxivResponses : ArxivResponse(resp)
    \/ apc = "lookup" /\ \E resp \in LookupResponses : LookupResponse(resp)
    \/ \E base \in BaseIds :
           apc = "idle" /\ public_dir = {} /\ CreateArticle(<<"a">>, base, <<"v", "1">>)

SpecArxiv == InitArxiv /\ [][NextArxiv]_vars

\* ------------------------------------- the keyword search's query selection
\* the list _update_search_queries_for_current_year() sets
SearchQueriesCurrentYear ==
    <<"categories year", "machine learning year", "transformer year", "LLM year",
      "generative AI year">>

\* variant: the day of month itself is reduced, not the day before it
QueryIndexFromDay(day_of_month, queries) == day_of_month % Len(queries)

\* query_index = (day_of_month - 1) % len(queries)
QueryIndex(day_of_month, queries) == (day_of_month - 1) % Len(queries)

\* the last day of a month: datetime's calendar, in a year that is no leap year
DaysIn(month) ==
    IF month = 2 THEN 28 ELSE IF month \in {4, 6, 9, 11} THEN 30 ELSE 31

\* the calendar day after t
DayAfter(t) == IF t[2] < DaysIn(t[1]) THEN <<t[1], t[2] + 1>> ELSE <<t[1] + 1, 1>>

\* _fetch_papers_keyword_based up to params["q"]: the strategy's list and its query
SelectQuery(prefer_recent) ==
    /\ UNCHANGED <<fetcherVars, qiitaVars, selectVars, arxivVars, diskVars,
                   concurrentVars>>
    /\ search_queries_recent' =
           IF prefer_recent THEN SearchQueriesCurrentYear ELSE search_queries_recent
    /\ LET queries ==
               IF prefer_recent THEN search_queries_recent' ELSE SearchQueriesQuality
           query_index == QueryIndex(now[2], queries)
       IN  query' = [index |-> query_index, text |-> queries[query_index + 1],
                     date |-> now, queries |-> queries]

\* datetime.now() is on the next calendar day
Tomorrow ==
    /\ UNCHANGED <<qiitaVars, selectVars, arxivVars, auxVars>>
    /\ DayAfter(now)[1] <= MaxMonth
    /\ now' = DayAfter(now)
    /\ UNCHANGED <<fetched_papers, api_usage, history_file, api_usage_file,
                   daily_files, pc, call, ret, sent, issued, increments, usage0,
                   delivered>>

InitQuery == Init /\ api_usage_file = EmptyDict

NextQuery ==
    \/ \E prefer_recent \in BOOLEAN : SelectQuery(prefer_recent)
    \/ Tomorrow

SpecQuery == InitQuery /\ [][NextQuery]_vars

\* ------------------------------------------- the fetcher on a failing disk
\* A write that fails raises from open() and leaves the file as it was.
\* _increment_api_usage inside _search_with_query's try, with its write's outcome
AfterRequestOnDisk(resp, usage_saved) ==
    IF resp.kind = "exception"
    THEN UNCHANGED <<api_usage, api_usage_file, increments>>
    ELSE /\ api_usage' = IncrementApiUsage(api_usage, now)
         /\ api_usage_file' = IF usage_saved THEN SaveApiUsage(api_usage')
                              ELSE api_usage_file
         /\ increments' = [increments EXCEPT ![GetCurrentMonthKey(now)] = @ + 1]

\* the search's result: except Exception returns [] when the usage write raised
SearchResultOnDisk(resp, usage_saved, min_citations) ==
    IF resp.kind = "exception" \/ ~usage_saved THEN <<>>
    ELSE NewPapers(resp, fetched_papers, min_citations, call.max_papers)

\* self.fetched_papers[today] = {ids}; _save_history(), which may raise out of
\* fetch_daily_papers; _save_daily_papers(); return
AcceptBatchOnDisk(papers, history_saved) ==
    IF history_saved
    THEN /\ AcceptBatch(papers)
         /\ Return(papers, sent)
    ELSE /\ fetched_papers' = Put(fetched_papers, Today(now), IdsOf(papers))
         /\ UNCHANGED <<history_file, daily_files>>
         /\ Return(<<>>, sent)

\* fetch_daily_papers from the category search's response on
CategoryResponseOnDisk(resp, usage_saved, history_saved) ==
    /\ UNCHANGED <<qiitaVars, arxivVars, selectVars, concurrentVars, queryVars>>
    /\ pc = "category"
    /\ call.op = "fetch_daily_papers"
    /\ AfterRequestOnDisk(resp, usage_saved)
    /\ UNCHANGED <<now, call, usage0>>
    /\ LET category_papers == SearchResultOnDisk(resp, usage_saved, MinCitationsCategory)
           usage_failed == resp.kind # "exception" /\ ~usage_saved
       IN  IF Found(category_papers)
           THEN /\ AcceptBatchOnDisk(category_papers, history_saved)
                /\ fault' = [usage |-> usage_failed, history |-> ~history_saved,
                             raised |-> ~history_saved]
           ELSE /\ IssueRequest("keyword", api_usage', sent)
                /\ UNCHANGED <<fetched_papers, history_file, daily_files>>
                /\ fault' = [usage |-> usage_failed, history |-> FALSE, raised |-> FALSE]
    /\ delivered' = Delivered(call.op, pc', ret')

\* fetch_daily_papers from the keyword search's response on
KeywordResponseOnDisk(resp, usage_saved, history_saved) ==
    /\ UNCHANGED <<qiitaVars, arxivVars, selectVars, concurrentVars, queryVars>>
    /\ pc = "keyword"
    /\ call.op = "fetch_daily_papers"
    /\ AfterRequestOnDisk(resp, usage_saved)
    /\ UNCHANGED <<now, call, usage0>>
    /\ LET min_citations ==
               IF call.prefer_recent THEN MinCitationsRecent ELSE MinCitationsQuality
           keyword_papers == SearchResultOnDisk(resp, usage_saved, min_citations)
           usage_failed ==
               (Len(sent) = 2 /\ fault.usage) \/ (resp.kind # "exception" /\ ~usage_saved)
       IN  IF Found(keyword_papers)
           THEN /\ AcceptBatchOnDisk(keyword_papers, history_saved)
                /\ fault' = [usage |-> usage_failed, history |-> ~history_saved,
                             raised |-> ~history_saved]
           ELSE /\ UNCHANGED <<fetched_papers, history_file, daily_files>>
                /\ Return(<<>>, sent)
                /\ fault' = [usage |-> usage_failed, history |-> FALSE, raised |-> FALSE]
    /\ delivered' = Delivered(call.op, pc', ret')

InitDisk == Init /\ api_usage_file = EmptyDict

NextDisk ==
    \/ \E force \in BOOLEAN, prefer_recent \in BOOLEAN, max_papers \in 0..MaxPapers :
           FetchDailyPapers(force, prefer_recent, max_papers)
    \/ /\ pc = "category"
       /\ \E resp \in Responses, usage_saved \in BOOLEAN, history_saved \in BOOLEAN :
              CategoryResponseOnDisk(resp, usage_saved, history_saved)
    \/ /\ pc = "keyword"
       /\ \E resp \in Responses, usage_saved \in BOOLEAN, history_saved \in BOOLEAN :
              KeywordResponseOnDisk(resp, usage_saved, history_saved)
    \/ Restart

SpecDisk == InitDisk /\ [][NextDisk]_vars

\* ----------------------------------- concurrent searches over one usage file
\* Two adapters run _search_with_query at the same time: two threads on one
\* fetcher, or two fetchers constructed over the same cache directory.  The
\* code takes no lock, so their steps interleave at the outbound request and
\* between the read and the store of the count.  Every request is answered.
Adapters == 1..2

\* the adapters start: each fetcher loads the usage file at construction
StartAdapters(threads) ==
    /\ UNCHANGED <<qiitaVars, arxivVars, selectVars, diskVars, queryVars>>
    /\ pc = "idle"
    /\ workers = NoWorkers
    /\ workers' = [w \in Adapters |->
                      [pc |-> "idle", instance |-> IF threads THEN 1 ELSE w, read |-> 0]]
    /\ instances' = IF threads THEN <<LoadApiUsage(api_usage_file)>>
                    ELSE [w \in Adapters |-> LoadApiUsage(api_usage_file)]
    /\ UNCHANGED fetcherVars

\* _check_api_limit() passes and the request goes out; when it does not pass
\* the call returns [] and changes nothing
AdapterSearch(w) ==
    /\ UNCHANGED <<qiitaVars, arxivVars, selectVars, diskVars, queryVars>>
    /\ workers # NoWorkers
    /\ workers[w].pc = "idle"
    /\ TotalIssued < MaxRequests
    /\ CheckApiLimit(instances[workers[w].instance], now)[1]
    /\ workers' = [workers EXCEPT ![w].pc = "request"]
    /\ issued' = [issued EXCEPT ![GetCurrentMonthKey(now)] = @ + 1]
    /\ UNCHANGED <<now, fetched_papers, api_usage, history_file, api_usage_file,
                   daily_files, pc, call, ret, sent, increments, usage0, delivered,
                   instances>>

\* get_dict() returns; _increment_api_usage reads self.api_usage.get(month_key, 0)
AdapterResponse(w) ==
    /\ UNCHANGED <<qiitaVars, arxivVars, selectVars, diskVars, queryVars>>
    /\ workers # NoWorkers
    /\ workers[w].pc = "request"
    /\ workers' = [workers EXCEPT
                      ![w].pc = "store",
                      ![w].read = Used(instances[workers[w].instance], now)]
    /\ UNCHANGED <<fetcherVars, instances>>

\* self.api_usage[month_key] = <the count read> + 1; _save_api_usage()
AdapterStore(w) ==
    /\ UNCHANGED <<qiitaVars, arxivVars, selectVars, diskVars, queryVars>>
    /\ workers # NoWorkers
    /\ workers[w].pc = "store"
    /\ workers' = [workers EXCEPT ![w].pc = "idle"]
    /\ instances' = [instances EXCEPT ![workers[w].instance] =
                         Put(@, GetCurrentMonthKey(now), workers[w].read + 1)]
    /\ api_usage_file' = SaveApiUsage(instances'[workers[w].instance])
    /\ increments' = [increments EXCEPT ![GetCurrentMonthKey(now)] = @ + 1]
    /\ UNCHANGED <<now, fetched_papers, api_usage, history_file, daily_files, pc,
                   call, ret, sent, issued, usage0, delivered>>

NextConcurrent ==
    \/ \E threads \in BOOLEAN : StartAdapters(threads)
    \/ \E w \in Adapters : AdapterSearch(w)
    \/ \E w \in Adapters : AdapterResponse(w)
    \/ \E w \in Adapters : AdapterStore(w)

SpecConcurrent == Init /\ [][NextConcurrent]_vars

\* ================================================================ claims
FetchOps == {"fetch_daily_papers", "fetch_papers_by_arxiv_categories"}

CurrentMonth == GetCurrentMonthKey(now)

\* C1: the recorded count of a month never exceeds the limit of 100, and no
\* search request (category or keyword fallback) is issued while the month's
\* count is already at or above the limit.
HardMonthlyBudget ==
    /\ \A m \in DOMAIN api_usage : api_usage[m] <= MonthlyLimit
    /\ \A i \in 1..Len(sent) : sent[i].used < MonthlyLimit

\* C2: in a period that started with no recorded usage, after N calls of
\* _increment_api_usage the recorded count is N and _check_api_limit returns
\* (100 - N > 0, 100 - N); from the limit on it returns allowed = FALSE.
QuotaMonotonicity ==
    \A m \in Months :
        usage0[m] = 0 =>
            /\ Get(api_usage, m, 0) = increments[m]
            /\ m = CurrentMonth =>
                   /\ CheckApiLimit(api_usage, now)
                          = <<MonthlyLimit - increments[m] > 0, MonthlyLimit - increments[m]>>
                   /\ increments[m] >= MonthlyLimit => ~CheckApiLimit(api_usage, now)[1]
                   /\ call.op = "_check_api_limit" =>
                          ret = <<MonthlyLimit - increments[m] > 0, MonthlyLimit - increments[m]>>

QuotaMonotonicityWitness ==
    /\ call.op = "_check_api_limit"
    /\ CurrentMonth > 1
    /\ increments[CurrentMonth] = MonthlyLimit
    /\ ret = <<FALSE, 0>>

\* C3: every search request issued is counted by exactly one increment of its
\* month's count, whatever its outcome (results, no organic_results, exception).
ChargedOnAttempt ==
    \A m \in Months :
        issued[m] = increments[m] + (IF pc # "idle" /\ m = CurrentMonth THEN 1 ELSE 0)

\* C4: a step never lowers or removes the count of any month, changes no
\* entry but the current month's, and a month without an entry counts as 0.
QuotaCountsOnlyGrow ==
    [][/\ DOMAIN api_usage \subseteq DOMAIN api_usage'
       /\ DOMAIN api_usage_file \subseteq DOMAIN api_usage_file'
       /\ \A m \in DOMAIN api_usage : api_usage'[m] >= api_usage[m]
       /\ \A m \in DOMAIN api_usage_file : api_usage_file'[m] >= api_usage_file[m]
       /\ \A m \in Months \ {CurrentMonth} :
              /\ Get(api_usage', m, 0) = Get(api_usage, m, 0)
              /\ m \in DOMAIN api_usage' <=> m \in DOMAIN api_usage
       /\ CurrentMonth' # CurrentMonth => Get(api_usage', CurrentMonth', 0) = 0]_vars

QuotaCountsOnlyGrowWitness ==
    /\ CurrentMonth = 2
    /\ DOMAIN api_usage = {1, 2}
    /\ api_usage[1] > 0
    /\ api_usage[2] > 1

\* C5: between operations the usage file equals the in-memory map, and the
\* count a fetcher built from the file sees for a month is at least the
\* number of requests issued in that month.
WriteThroughQuota ==
    pc = "idle" =>
        /\ LoadApiUsage(api_usage_file) = api_usage
        /\ \A m \in Months :
               Get(LoadApiUsage(api_usage_file), m, 0) >= usage0[m] + issued[m]

\* C6: a fetch_daily_papers or _search_with_query call made while the month's
\* count is >= 100 returns an empty list, issues no request and changes
\* neither the usage map, the history nor any persisted file.
QuotaExhaustedIsClean ==
    [][(/\ pc = "idle"
        /\ call'.op \in FetchOps
        /\ Used(api_usage, now) >= MonthlyLimit)
       => /\ pc' = "idle"
          /\ ret' = <<>>
          /\ sent' = <<>>
          /\ UNCHANGED <<api_usage, fetched_papers, history_file, api_usage_file,
                         daily_files, issued>>]_vars

QuotaExhaustedIsCleanWitness ==
    /\ pc = "idle"
    /\ call.op = "fetch_daily_papers"
    /\ Today(now) \notin DOMAIN fetched_papers
    /\ Used(api_usage, now) >= MonthlyLimit
    /\ ret = <<>>
    /\ sent = <<>>

\* C7: no paper returned by fetch_daily_papers (category path or keyword
\* fallback) has an id that was in the history when the call was made.
DedupAgainstHistory ==
    [][(/\ pc # "idle"
        /\ pc' = "idle"
        /\ call.op = "fetch_daily_papers")
       => IdsOf(ret') \cap AllFetchedIds(fetched_papers) = {}]_vars

DedupAgainstHistoryWitness ==
    /\ pc = "idle"
    /\ call.op = "fetch_daily_papers"
    /\ ret # <<>>
    /\ \E d \in DOMAIN fetched_papers : d # Today(now) /\ fetched_papers[d] # {}

\* C8: an id once in the history stays in it: no step removes an id from the
\* in-memory history or from the persisted history.
HistoryAppendOnly ==
    [][/\ AllFetchedIds(fetched_papers) \subseteq AllFetchedIds(fetched_papers')
       /\ AllFetchedIds(LoadHistory(history_file))
              \subseteq AllFetchedIds(LoadHistory(history_file'))]_vars

\* C9: when fetch_daily_papers returns a non-empty list, the returned ids are
\* in history[today] in memory and in the history file, and the file equals
\* the in-memory history.
AcceptedBatchPersisted ==
    (pc = "idle" /\ call.op = "fetch_daily_papers" /\ ret # <<>>) =>
        /\ Today(now) \in DOMAIN fetched_papers
        /\ IdsOf(ret) \subseteq fetched_papers[Today(now)]
        /\ Today(now) \in DOMAIN history_file
        /\ IdsOf(ret) \subseteq ListToSet(history_file[Today(now)])
        /\ LoadHistory(history_file) = fetched_papers

AcceptedBatchPersistedWitness ==
    /\ pc = "idle"
    /\ call.op = "fetch_daily_papers"
    /\ Len(sent) = 2
    /\ ret # <<>>

\* C10: two arXiv ids that differ only in the version suffix normalize to the
\* same key, in the uploader's check, in its file-derived list and in the
\* citation lookup; once an article file exists for one version of a paper,
\* is_paper_already_processed is TRUE for every version of it.
VersionFolding ==
    /\ \A r \in recorded, v \in Versions :
           /\ QiitaCleanId(r[1] \o v) = QiitaCleanId(r[1] \o r[2])
           /\ CitationCleanId(r[1] \o v) = QiitaCleanId(r[1] \o v)
           /\ IsPaperAlreadyProcessed(public_dir, r[1] \o v)
    /\ GetExistingArxivIds(public_dir) = {QiitaCleanId(r[1] \o r[2]) : r \in recorded}
    /\ (checked.op = "is_paper_already_processed"
            /\ \E r \in recorded : r[1] = checked.base) => checked.result

VersionFoldingWitness ==
    /\ checked.op = "is_paper_already_processed"
    /\ checked.result
    /\ checked.version = <<"v", "2">>
    /\ recorded = {<<checked.base, <<"v", "1">>>>}

\* C11: the Semantic Scholar adapter sends at most 3 search requests whatever
\* the responses are; when every response is 429 it sends exactly 3, then
\* leaves the retry loop for the fallback (one arXiv request), never a fourth
\* search request.
BackoffBound ==
    acall.op = SemanticScholarOp =>
        /\ requests.search <= MaxRetries
        /\ retry_count <= MaxRetries
        /\ requests.search = retry_count + (IF retry_count < MaxRetries THEN 1 ELSE 0)
        /\ retry_count = MaxRetries <=> trail.fallback
        /\ trail.fallback =>
               /\ requests.search = MaxRetries
               /\ requests.arxiv = 1
               /\ apc \in {"fallback", "idle"}
        /\ apc = "search" => retry_count < MaxRetries

BackoffBoundWitness ==
    /\ acall.op = SemanticScholarOp
    /\ apc = "idle"
    /\ retry_count = MaxRetries
    /\ requests.search = MaxRetries
    /\ trail.fallback
    /\ outcome.kind = "list"
    /\ outcome.papers # <<>>

\* C12: after the third consecutive 429 the adapter's outcome is the outcome
\* of fetch_ai_papers(max_results): its list when it returns one, its error
\* when it fails; an empty list never stands in for a failed fallback.
FailoverAfterRetryExhaustion ==
    (acall.op = SemanticScholarOp /\ apc = "idle" /\ trail.fallback) =>
        IF trail.failure = "none"
        THEN outcome = [kind |-> "list", papers |-> ParseEntries(trail.data)]
        ELSE outcome.kind = "raised"

\* C13: on a 200 response the relaxed pass is made exactly when the strict
\* date filter accepted nothing from a non-empty response, at most once and
\* without a further request; its papers lie within the maximum look-back;
\* when the strict filter accepted a paper only in-window papers are returned.
WindowWidening ==
    (/\ acall.op = SemanticScholarOp
     /\ apc = "idle"
     /\ ~trail.fallback
     /\ trail.failure = "none") =>
        /\ trail.relaxed <= 1
        /\ trail.relaxed = 1 <=> (trail.strict = 0 /\ trail.data # <<>>)
        /\ requests = [search |-> retry_count + 1, arxiv |-> 0, lookup |-> 0]
        /\ trail.strict > 0 =>
               \A i \in 1..Len(outcome.papers) : outcome.papers[i].published = "in_window"
        /\ trail.relaxed = 1 =>
               \A i \in 1..Len(outcome.papers) :
                   outcome.papers[i].published \in {"in_window", "now", "look_back"}

\* paper a may stand before paper b in a ranked list
RankedBefore(a, b) ==
    \/ a.citation_count > b.citation_count
    \/ /\ a.citation_count = b.citation_count
       /\ \/ a.citation_velocity > b.citation_velocity
          \/ /\ a.citation_velocity = b.citation_velocity
             /\ a.published >= b.published

\* C14: the list a run with citation ranking hands downstream is ordered by
\* citation count descending, then citation velocity descending, then
\* publication date descending.
RankingOrder ==
    (acall.op = "main" /\ Enriches(acall) /\ apc = "idle" /\ outcome.kind = "list") =>
        \A i \in 1..Len(outcome.papers), j \in 1..Len(outcome.papers) :
            i < j => RankedBefore(outcome.papers[i], outcome.papers[j])

\* C15: _search_with_query(query, n) returns at most n papers, for every n >= 0.
Truncation ==
    call.op = "_search_with_query" => Len(ret) <= call.max_papers

\* C16: no two papers of a batch returned by _search_with_query have the same id.
InBatchDedup ==
    call.op = "_search_with_query" =>
        \A i \in 1..Len(ret), j \in 1..Len(ret) : i # j => ret[i].id # ret[j].id

\* positions of the eligible results (free, enough citations) not in history
RemainingCandidates ==
    {i \in 1..Len(received.organic_results) :
        /\ IsFreePaper(received.organic_results[i])
        /\ ExtractCitations(received.organic_results[i]) >= MinCitationsCategory
        /\ GetPaperId(received.organic_results[i]) \notin AllFetchedIds(fetched_papers)}

\* C17: the result of _search_with_query(query, n) is the first n of the
\* eligible candidates not in history in descending citation order: it has
\* min(n, remaining) elements, is sorted by citations descending, consists of
\* distinct remaining candidates, and no candidate left out has more
\* citations than one that was taken.
TopNSelection ==
    (call.op = "_search_with_query" /\ received.kind = "organic") =>
        /\ Len(ret) = IF call.max_papers < Cardinality(RemainingCandidates)
                      THEN call.max_papers ELSE Cardinality(RemainingCandidates)
        /\ \A i \in 1..Len(ret), j \in 1..Len(ret) :
               i < j => ret[i].citations >= ret[j].citations
        /\ \E f \in [1..Len(ret) -> RemainingCandidates] :
               /\ \A i \in 1..Len(ret), j \in 1..Len(ret) : i # j => f[i] # f[j]
               /\ \A i \in 1..Len(ret) : ret[i] = PaperInfo(received.organic_results[f[i]])
               /\ \A k \in RemainingCandidates \ {f[i] : i \in 1..Len(ret)} :
                      \A i \in 1..Len(ret) :
                          ExtractCitations(received.organic_results[k]) <= ret[i].citations

\* the lookups of the enrichment loop that have been answered
Answered == Len(trail.lookups)

FatalNotMasked ==
    (apc = "idle" /\ trail.failure = "exception") => outcome.kind = "raised"

\* C20: no failure of a fetch (error status, network exception, unparseable
\* body) leaves the acquisition run as an uncaught exception.
NeverCrashes ==
    acall.op = "main" => outcome.kind # "raised"

\* the positions of the feed's entries that have an id and a published date
Parseable(entries) ==
    {i \in 1..Len(entries) : entries[i].arxiv_id # 0 /\ entries[i].published # 0}

\* the papers parsed from the feed that arrived
ParsedFeed == IF acall.op = "main" THEN work ELSE outcome.papers

\* C23: when the arXiv feed arrived, the parsed list is exactly the feed's
\* parseable entries in feed order: the k-th parseable entry is the k-th
\* paper, and an entry without id or published date is left out alone.
MalformedEntriesSkipped ==
    (/\ trail.failure = "none"
     /\ \/ acall.op = "main" /\ apc \in {"lookup", "idle"}
        \/ acall.op = SemanticScholarOp /\ apc = "idle" /\ trail.fallback) =>
        /\ Len(ParsedFeed) = Cardinality(Parseable(trail.data))
        /\ \A i \in Parseable(trail.data) :
               LET k == Cardinality({j \in Parseable(trail.data) : j <= i})
               IN  /\ ParsedFeed[k].arxiv_id = trail.data[i].arxiv_id
                   /\ ParsedFeed[k].published = trail.data[i].published

MalformedEntriesSkippedWitness ==
    /\ acall.op = "main"
    /\ ~Enriches(acall)
    /\ ~acall.qiita_upload
    /\ apc = "idle"
    /\ trail.failure = "none"
    /\ Len(trail.data) = 2
    /\ trail.data[1].arxiv_id # 0
    /\ trail.data[1].published = 0
    /\ Parseable(trail.data) = {2}
    /\ outcome.kind = "list"
    /\ Len(outcome.papers) = 1
    /\ outcome.papers[1].arxiv_id = trail.data[2].arxiv_id

\* C25: the k-th wait of the retry loop is BaseDelay * k seconds (60, then
\* 120); there is one wait per rate-limited response that is followed by
\* another attempt, and none after the third before the fallback.
LinearBackoff ==
    acall.op = SemanticScholarOp =>
        /\ \A k \in 1..Len(trail.waits) : trail.waits[k] = BaseDelay * k
        /\ Len(trail.waits) = (IF retry_count < MaxRetries THEN retry_count
                               ELSE MaxRetries - 1)
        /\ trail.fallback => trail.waits = <<60, 120>>

LinearBackoffWitness ==
    /\ acall.op = SemanticScholarOp
    /\ apc = "idle"
    /\ trail.responses = <<"429", "429", "429">>
    /\ trail.waits = <<60, 120>>
    /\ trail.fallback

EarlierResponses == SubSeq(trail.responses, 1, Len(trail.responses) - 1)

\* C30: a response with a status other than 200 and 429 ends the call at once
\* with an empty list: no request after it, no wait but those after the 429s
\* before it, no fallback; a 200 ends the loop and its body is what is
\* filtered.  Both also after one or two 429 responses.
OnlyRateLimitRetried ==
    (/\ acall.op = SemanticScholarOp
     /\ trail.responses # <<>>
     /\ trail.responses[Len(trail.responses)] \in {"error_status", "ok"}) =>
        /\ apc = "idle"
        /\ ~trail.fallback
        /\ Len(trail.responses) <= MaxRetries
        /\ \A k \in 1..Len(EarlierResponses) : EarlierResponses[k] = "429"
        /\ requests = [search |-> Len(trail.responses), arxiv |-> 0, lookup |-> 0]
        /\ Len(trail.waits) = Len(EarlierResponses)
        /\ trail.responses[Len(trail.responses)] = "error_status" =>
               outcome = [kind |-> "list", papers |-> <<>>]
        /\ trail.responses[Len(trail.responses)] = "ok" =>
               /\ outcome.kind = "list"
               /\ \A i \in 1..Len(outcome.papers) :
                      \E j \in 1..Len(trail.data) :
                          trail.data[j].arxiv_id = outcome.papers[i].arxiv_id

OnlyRateLimitRetriedWitness ==
    /\ acall.op = SemanticScholarOp
    /\ apc = "idle"
    /\ trail.responses = <<"429", "429", "error_status">>
    /\ requests.search = 3
    /\ outcome = [kind |-> "list", papers |-> <<>>]

\* C27: a fetch_daily_papers call without force on a date the history has an
\* entry for returns an empty list, issues no request and changes neither
\* the history, the usage map, the count of requests nor any persisted file.
OncePerDayGuard ==
    [][(/\ pc = "idle"
        /\ call'.op = "fetch_daily_papers"
        /\ ~call'.force
        /\ Today(now) \in DOMAIN fetched_papers)
       => /\ pc' = "idle"
          /\ ret' = <<>>
          /\ sent' = <<>>
          /\ UNCHANGED <<fetched_papers, api_usage, history_file, api_usage_file,
                         daily_files, issued, increments>>]_vars

OncePerDayGuardWitness ==
    /\ pc = "idle"
    /\ call.op = "fetch_daily_papers"
    /\ ~call.force
    /\ Today(now) \in DOMAIN fetched_papers
    /\ Used(api_usage, now) < MonthlyLimit
    /\ ret = <<>>
    /\ sent = <<>>

\* C28: no paper id is in the lists returned by two different
\* fetch_daily_papers calls: a call returns no id that an earlier call
\* returned, whatever dates, force flags and restarts lie between them.
NoRedelivery ==
    [][(/\ pc # "idle"
        /\ pc' = "idle"
        /\ call.op = "fetch_daily_papers")
       => IdsOf(ret') \cap delivered = {}]_vars

\* C29: a fetch_daily_papers call that returns an empty list leaves the
\* in-memory history, the history file and the daily files as they were;
\* in particular it adds no entry for today after both searches found nothing.
EmptyRunLeavesHistory ==
    [][(/\ call'.op = "fetch_daily_papers"
        /\ pc' = "idle"
        /\ ret' = <<>>)
       => UNCHANGED <<fetched_papers, history_file, daily_files>>]_vars

EmptyRunLeavesHistoryWitness ==
    /\ pc = "idle"
    /\ call.op = "fetch_daily_papers"
    /\ ~call.force
    /\ Len(sent) = 2
    /\ sent[1].kind = "category"
    /\ sent[2].kind = "keyword"
    /\ ret = <<>>
    /\ Today(now) \notin DOMAIN fetched_papers
    /\ history_file = SaveHistory(fetched_papers)

\* the query selected in the next state is the one the day of month gives
RotationFormula ==
    /\ query'.index \in 0..(Len(query'.queries) - 1)
    /\ query'.index = (query'.date[2] - 1) % Len(query'.queries)
    /\ query'.text = query'.queries[query'.index + 1]
    /\ \A d \in 1..30 :
           QueryIndex(d + 1, query'.queries)
               = (QueryIndex(d, query'.queries) + 1) % Len(query'.queries)

\* the next state's query follows this state's in the list, cyclically
NextInList == query'.index = (query.index + 1) % Len(query.queries)

\* both states hold a selected query, taken from the same list
SameList == query.text # "none" /\ query'.queries = query.queries

WriteFailureNotSuccess ==
    /\ pc = "idle" =>
           /\ fault.history => (fault.raised /\ ret = <<>>)
           /\ AllFetchedIds(fetched_papers)
                  \subseteq AllFetchedIds(LoadHistory(history_file))
    /\ \A m \in DOMAIN api_usage :
           api_usage[m] <= Get(LoadApiUsage(api_usage_file), m, 0)

\* C22: when no concurrent search is in progress, the count recorded for the
\* month is the count found at the start plus the number of requests issued
\* (no increment is lost), and it is not above the limit of 100.
NoConcurrentOverspend ==
    (workers # NoWorkers /\ \A w \in Adapters : workers[w].pc = "idle") =>
        /\ Used(LoadApiUsage(api_usage_file), now)
               = usage0[CurrentMonth] + issued[CurrentMonth]
        /\ usage0[CurrentMonth] + issued[CurrentMonth] <= MonthlyLimit

====
